---------------------------- MODULE Spec2Model ----------------------------
(***************************************************************************)
(* Model of the declaration-extraction engine of AI-Forge:                 *)
(*   ScriptsAndConfigs/generate_api_optimized_dataset.py                   *)
(*   scripts/generate_unified_dataset.py   (the same code, copied)         *)
(*                                                                         *)
(* Text is modelled character by character: a Python str is a TLA+ string, *)
(* and the string methods and regular expressions of the source are        *)
(* operators over Len, SubSeq and \o.  Python's None is the empty tuple    *)
(* <<>>; an Optional[str] that is present is the one-element tuple <<s>>.  *)
(***************************************************************************)
EXTENDS Integers, Sequences, FiniteSets, TLC

(***************************************************************************)
(* Python str primitives                                                   *)
(***************************************************************************)
None == <<>>

Some(x) == <<x>>

CharAt(s, i) == SubSeq(s, i, i)

CharsOf(s) == {CharAt(s, i) : i \in 1..Len(s)}

Whitespace == {" ", "\t", "\n", "\r"}

Digits == CharsOf("0123456789")

WordChars ==
    CharsOf("abcdefghijklmnopqrstuvwxyzABCDEFGHIJKLMNOPQRSTUVWXYZ0123456789_")

\* s.startswith(p)
StartsWith(s, p) == Len(s) >= Len(p) /\ SubSeq(s, 1, Len(p)) = p

\* s[i:].startswith(p), i is 1-based
StartsWithAt(s, i, p) ==
    i + Len(p) - 1 <= Len(s) /\ SubSeq(s, i, i + Len(p) - 1) = p

\* sub in s
Contains(s, sub) == \E i \in 1..(Len(s) - Len(sub) + 1) : StartsWithAt(s, i, sub)

\* s.count(c) for a one-character c
RECURSIVE CountFrom(_, _, _)
CountFrom(s, c, i) ==
    IF i > Len(s) THEN 0
    ELSE (IF CharAt(s, i) = c THEN 1 ELSE 0) + CountFrom(s, c, i + 1)

Count(s, c) == CountFrom(s, c, 1)

\* first index >= i whose character is not in cs (Len(s)+1 when there is none)
RECURSIVE SkipSet(_, _, _)
SkipSet(s, i, cs) ==
    IF i <= Len(s) /\ CharAt(s, i) \in cs THEN SkipSet(s, i + 1, cs) ELSE i

\* last index <= i whose character is not in cs (0 when there is none)
RECURSIVE SkipSetBack(_, _, _)
SkipSetBack(s, i, cs) ==
    IF i >= 1 /\ CharAt(s, i) \in cs THEN SkipSetBack(s, i - 1, cs) ELSE i

\* s.lstrip(chars), s.strip()
LStripSet(s, cs) == SubSeq(s, SkipSet(s, 1, cs), Len(s))

Strip(s) ==
    LET a == SkipSet(s, 1, Whitespace)
        b == SkipSetBack(s, Len(s), Whitespace)
    IN  IF a > b THEN "" ELSE SubSeq(s, a, b)

\* index of the first c in s at or after i, 0 when there is none
RECURSIVE IndexFrom(_, _, _)
IndexFrom(s, c, i) ==
    IF i > Len(s) THEN 0
    ELSE IF CharAt(s, i) = c THEN i ELSE IndexFrom(s, c, i + 1)

\* s.split(sep, 1) for a one-character sep
Split1(s, sep) ==
    LET k == IndexFrom(s, sep, 1)
    IN  IF k = 0 THEN <<s>>
        ELSE <<SubSeq(s, 1, k - 1), SubSeq(s, k + 1, Len(s))>>

\* s.split(sep) for a one-character sep
RECURSIVE Split(_, _)
Split(s, sep) ==
    LET k == IndexFrom(s, sep, 1)
    IN  IF k = 0 THEN <<s>>
        ELSE <<SubSeq(s, 1, k - 1)>> \o Split(SubSeq(s, k + 1, Len(s)), sep)

\* sep.join(parts)
RECURSIVE Join(_, _)
Join(parts, sep) ==
    IF Len(parts) = 0 THEN ""
    ELSE IF Len(parts) = 1 THEN parts[1]
    ELSE parts[1] \o sep \o Join(Tail(parts), sep)

\* int(s) for a string of decimal digits
DigitValue(c) == CHOOSE d \in 0..9 : CharAt("0123456789", d + 1) = c

RECURSIVE ParseIntFrom(_, _, _)
ParseIntFrom(s, i, acc) ==
    IF i > Len(s) THEN acc
    ELSE ParseIntFrom(s, i + 1, acc * 10 + DigitValue(CharAt(s, i)))

ParseInt(s) == ParseIntFrom(s, 1, 0)

(***************************************************************************)
(* Program constants and the ApiElement record                             *)
(***************************************************************************)
MIN_IOS_VERSION == <<17, 0>>

TypeKinds == {"class", "struct", "enum", "actor", "protocol"}

ApiElement(name, kind, signature, doc, introduced, deprecated, unavailable, file, parent) ==
    [name |-> name, kind |-> kind, signature |-> signature, doc |-> doc,
     ios_introduced |-> introduced, deprecated |-> deprecated,
     unavailable |-> unavailable, source_file |-> file, parent_type |-> parent]

full_name(e) ==
    IF e.parent_type # None /\ e.kind \in {"func", "property"}
    THEN e.parent_type[1] \o "." \o e.name
    ELSE e.name

(***************************************************************************)
(* Versions                                                                *)
(***************************************************************************)
version_to_tuple(text) ==
    LET parts == Split(Strip(text), ".")
        major == IF Len(parts) > 0 THEN ParseInt(parts[1]) ELSE 0
        minor == IF Len(parts) > 1 THEN ParseInt(parts[2]) ELSE 0
    IN  <<major, minor>>

\* Python's >= on tuples of ints: the first differing position decides,
\* equal prefixes are decided by length.
RECURSIVE TupleGE(_, _)
TupleGE(a, b) ==
    IF Len(b) = 0 THEN TRUE
    ELSE IF Len(a) = 0 THEN FALSE
    ELSE IF Head(a) # Head(b) THEN Head(a) > Head(b)
    ELSE TupleGE(Tail(a), Tail(b))

\* is_version_at_least comparing each component on its own
is_version_at_least_componentwise(version, target) ==
    IF version = None THEN FALSE
    ELSE version[1] >= target[1] /\ version[2] >= target[2]

is_version_at_least(version, target) ==
    IF version = None THEN FALSE ELSE TupleGE(version, target)

(***************************************************************************)
(* Regular expressions of the source, as leftmost/first-alternative        *)
(* matchers.  A match is [ok |-> TRUE, kw |-> ..., name |-> ...].          *)
(***************************************************************************)
NoMatch == [ok |-> FALSE, kw |-> "", name |-> ""]

\* the first successful match of a sequence of attempts, in order
RECURSIVE FirstMatch(_)
FirstMatch(ms) ==
    IF Len(ms) = 0 THEN NoMatch
    ELSE IF Head(ms).ok THEN Head(ms) ELSE FirstMatch(Tail(ms))

\* [0-9]+(?:\.[0-9]+)? at position i: the index after the match, 0 on failure
VersionEnd(s, i) ==
    LET d == SkipSet(s, i, Digits)
        f == SkipSet(s, d + 1, Digits)
    IN  IF d = i THEN 0
        ELSE IF d <= Len(s) /\ CharAt(s, d) = "." /\ f > d + 1 THEN f
        ELSE d

\* re.search(key \s+ VERSION) (atLeastOne) or re.search(key \s* VERSION):
\* group(1) of the leftmost match, None when nothing matches
VersionAfterAt(s, key, atLeastOne, i) ==
    LET w == SkipSet(s, i + Len(key), Whitespace)
    IN  IF StartsWithAt(s, i, key) /\ (~atLeastOne \/ w > i + Len(key))
           /\ VersionEnd(s, w) # 0
        THEN Some(SubSeq(s, w, VersionEnd(s, w) - 1))
        ELSE None

VersionAfter(s, key, atLeastOne) ==
    LET hits == {i \in 1..Len(s) : VersionAfterAt(s, key, atLeastOne, i) # None}
    IN  IF hits = {} THEN None
        ELSE VersionAfterAt(s, key, atLeastOne,
                            CHOOSE i \in hits : \A j \in hits : i <= j)

\* iOS\s+([0-9]+(?:\.[0-9]+)?)
direct_re(line) == VersionAfter(line, "iOS", TRUE)

\* introduced:\s*([0-9]+(?:\.[0-9]+)?)
introduced_re(line) == VersionAfter(line, "introduced:", FALSE)

Visibilities == <<"public", "open", "internal", "fileprivate", "private">>

\* ^(public|open|internal|fileprivate|private)? : the positions the rest of
\* the pattern is tried at, in the order the regex engine tries them
AfterVisibility(s) ==
    SelectSeq([k \in 1..Len(Visibilities) |->
                  IF StartsWith(s, Visibilities[k])
                  THEN Len(Visibilities[k]) + 1 ELSE 0],
              LAMBDA p : p # 0) \o <<1>>

\* \s*(static\s+|class\s+)? from position p
AfterStaticOrClass(s, p) ==
    LET q == SkipSet(s, p, Whitespace)
        opt(word) ==
            LET r == q + Len(word)
                w == SkipSet(s, r, Whitespace)
            IN  IF StartsWithAt(s, q, word) /\ w > r THEN <<w>> ELSE <<>>
    IN  opt("static") \o opt("class") \o <<q>>

\* KEYWORD\s+(\w+) at position q, for the keywords kws in order
KeywordThenName(s, q, kws) ==
    FirstMatch([k \in 1..Len(kws) |->
        LET r == q + Len(kws[k])
            w == SkipSet(s, r, Whitespace)
            e == SkipSet(s, w, WordChars)
        IN  IF StartsWithAt(s, q, kws[k]) /\ w > r /\ e > w
            THEN [ok |-> TRUE, kw |-> kws[k], name |-> SubSeq(s, w, e - 1)]
            ELSE NoMatch])

\* ^(vis)?\s*(actor|class|struct|enum|protocol)\s+(\w+)
type_decl_re(s) ==
    LET ps == AfterVisibility(s)
    IN  FirstMatch([k \in 1..Len(ps) |->
            KeywordThenName(s, SkipSet(s, ps[k], Whitespace),
                            <<"actor", "class", "struct", "enum", "protocol">>)])

\* ^(vis)?\s*(static\s+|class\s+)?KEYWORD\s+(\w+)
MemberRe(s, kws) ==
    LET ps == AfterVisibility(s)
    IN  FirstMatch([k \in 1..Len(ps) |->
            LET qs == AfterStaticOrClass(s, ps[k])
            IN  FirstMatch([j \in 1..Len(qs) |-> KeywordThenName(s, qs[j], kws)])])

func_decl_re(s) == MemberRe(s, <<"func">>)

prop_decl_re(s) == MemberRe(s, <<"var", "let">>)

\* ^(vis)?\s*(static\s+|class\s+)?init\b
init_decl_re(s) ==
    LET ps == AfterVisibility(s)
        at(q) ==
            IF StartsWithAt(s, q, "init")
               /\ (q + 4 > Len(s) \/ CharAt(s, q + 4) \notin WordChars)
            THEN [ok |-> TRUE, kw |-> "init", name |-> "init"]
            ELSE NoMatch
    IN  FirstMatch([k \in 1..Len(ps) |->
            LET qs == AfterStaticOrClass(s, ps[k])
            IN  FirstMatch([j \in 1..Len(qs) |-> at(qs[j])])])

(***************************************************************************)
(* Availability Interpreter                                                *)
(***************************************************************************)
\* AvailabilityStep that never sets the deprecated flag
AvailabilityStep_ignores_deprecated(v, raw) ==
    LET line == Strip(raw)
        unavailable == v[3] \/ Contains(line, "unavailable")
        deprecated == v[2]
        direct == direct_re(line)
        introduced_match == introduced_re(line)
    IN  IF ~Contains(line, "iOS") THEN v
        ELSE IF direct # None
             THEN <<version_to_tuple(direct[1]), deprecated, unavailable>>
        ELSE IF introduced_match # None
             THEN <<version_to_tuple(introduced_match[1]), deprecated, unavailable>>
        ELSE <<v[1], deprecated, unavailable>>

\* AvailabilityStep whose unavailable flag is that of the current line only
AvailabilityStep_last_unavailable(v, raw) ==
    LET line == Strip(raw)
        unavailable == Contains(line, "unavailable")
        deprecated ==
            v[2] \/ Contains(line, "deprecated") \/ Contains(line, "obsoleted")
        direct == direct_re(line)
        introduced_match == introduced_re(line)
    IN  IF ~Contains(line, "iOS") THEN v
        ELSE IF direct # None
             THEN <<version_to_tuple(direct[1]), deprecated, unavailable>>
        ELSE IF introduced_match # None
             THEN <<version_to_tuple(introduced_match[1]), deprecated, unavailable>>
        ELSE <<v[1], deprecated, unavailable>>

\* AvailabilityStep without the test for the platform keyword
AvailabilityStep_any_platform(v, raw) ==
    LET line == Strip(raw)
        unavailable == v[3] \/ Contains(line, "unavailable")
        deprecated ==
            v[2] \/ Contains(line, "deprecated") \/ Contains(line, "obsoleted")
        direct == direct_re(line)
        introduced_match == introduced_re(line)
    IN  IF direct # None
        THEN <<version_to_tuple(direct[1]), deprecated, unavailable>>
        ELSE IF introduced_match # None
             THEN <<version_to_tuple(introduced_match[1]), deprecated, unavailable>>
        ELSE <<v[1], deprecated, unavailable>>

\* AvailabilityStep keeping the first version found, with the keyed pattern
\* tried before the direct one
AvailabilityStep_first_keyed(v, raw) ==
    LET line == Strip(raw)
        unavailable == v[3] \/ Contains(line, "unavailable")
        deprecated ==
            v[2] \/ Contains(line, "deprecated") \/ Contains(line, "obsoleted")
        direct == direct_re(line)
        introduced_match == introduced_re(line)
    IN  IF ~Contains(line, "iOS") THEN v
        ELSE IF v[1] # None THEN <<v[1], deprecated, unavailable>>
        ELSE IF introduced_match # None
             THEN <<version_to_tuple(introduced_match[1]), deprecated, unavailable>>
        ELSE IF direct # None
             THEN <<version_to_tuple(direct[1]), deprecated, unavailable>>
        ELSE <<v[1], deprecated, unavailable>>

\* one iteration of the loop of parse_ios_availability: v is the verdict
\* <<introduced, deprecated, unavailable>> so far
AvailabilityStep(v, raw) ==
    LET line == Strip(raw)
        unavailable == v[3] \/ Contains(line, "unavailable")
        deprecated ==
            v[2] \/ Contains(line, "deprecated") \/ Contains(line, "obsoleted")
        direct == direct_re(line)
        introduced_match == introduced_re(line)
    IN  IF ~Contains(line, "iOS") THEN v
        ELSE IF direct # None
             THEN <<version_to_tuple(direct[1]), deprecated, unavailable>>
        ELSE IF introduced_match # None
             THEN <<version_to_tuple(introduced_match[1]), deprecated, unavailable>>
        ELSE <<v[1], deprecated, unavailable>>

RECURSIVE AvailabilityLoop(_, _)
AvailabilityLoop(v, avail) ==
    IF Len(avail) = 0 THEN v
    ELSE AvailabilityLoop(AvailabilityStep(v, Head(avail)), Tail(avail))

\* returns <<introduced, deprecated, unavailable>>
parse_ios_availability(avail) == AvailabilityLoop(<<None, FALSE, FALSE>>, avail)

(***************************************************************************)
(* Doc-buffer cleaning and line normalisation                              *)
(***************************************************************************)
\* re.sub(r"\n{3,}", "\n\n", doc)
RECURSIVE CollapseNewlines(_)
CollapseNewlines(doc) ==
    IF Len(doc) = 0 THEN ""
    ELSE LET run == SkipSet(doc, 1, {"\n"}) - 1
         IN  IF run >= 3
             THEN "\n\n" \o CollapseNewlines(SubSeq(doc, run + 1, Len(doc)))
             ELSE IF run >= 1
             THEN SubSeq(doc, 1, run)
                  \o CollapseNewlines(SubSeq(doc, run + 1, Len(doc)))
             ELSE CharAt(doc, 1) \o CollapseNewlines(SubSeq(doc, 2, Len(doc)))

\* clean_doc_lines that leaves the /// marker in place
clean_doc_lines_keeps_marker(docs) ==
    LET cleaned == [k \in 1..Len(docs) |-> Strip(docs[k])]
    IN  CollapseNewlines(Strip(Join(cleaned, "\n")))

clean_doc_lines(docs) ==
    LET cleaned == [k \in 1..Len(docs) |-> Strip(LStripSet(docs[k], {"/"}))]
    IN  CollapseNewlines(Strip(Join(cleaned, "\n")))

leading_modifiers ==
    {"nonisolated", "inlinable", "convenience", "mutating", "consuming",
     "borrowing", "isolated", "rethrows"}

RECURSIVE DropAttributes(_)
DropAttributes(stripped) ==
    IF StartsWith(stripped, "@") /\ Contains(stripped, " ")
    THEN DropAttributes(Strip(Split1(stripped, " ")[2]))
    ELSE stripped

RECURSIVE DropModifiers(_)
DropModifiers(stripped) ==
    LET parts == Split1(stripped, " ")
    IN  IF parts[1] \in leading_modifiers
        THEN DropModifiers(IF Len(parts) > 1 THEN parts[2] ELSE "")
        ELSE stripped

normalize_line(line) == DropModifiers(DropAttributes(Strip(line)))

(***************************************************************************)
(* State                                                                   *)
(***************************************************************************)
VARIABLES
    pc,             \* "batch": in the loop of load_all_api_elements;
                    \* "scan": in the loop of extract_api_elements;
                    \* "done": load_all_api_elements returned;
                    \* "raised": an exception left load_all_api_elements
    pending,        \* sorted(api_dir.glob("*.swift")) not yet iterated
    swift_file,     \* the file being scanned (None before the first)
    lines,          \* the lines of swift_file iterated so far
    doc_lines,      \* pending doc-comment buffer
    avail_lines,    \* pending availability buffer
    type_stack,     \* sequence of <<type_name, depth>>
    brace_depth,
    file_elements,  \* `elements` of extract_api_elements
    elements,       \* `elements` of load_all_api_elements
    element_kind,   \* locals of the last full loop iteration (None or <<s>>)
    element_name,
    branch,         \* the path the last iteration took through the loop body
    doc_at,         \* history: line numbers of the entries of doc_lines
    avail_at,       \* history: line numbers of the entries of avail_lines
    emitted,        \* history: per entry of file_elements, where it came from
    call,           \* a pure function applied on its own: arguments, result
    api_dir,        \* the names in the directory main() hands to the loader
    dataset,        \* `dataset` of main(): the instruction records
    run,            \* 1 on the first execution of main(), 2 on a repetition
    first,          \* history: what the first execution produced
    origin,         \* history: per entry of elements, its file and line number
    disk            \* history: per file returned, its name, the lines read and
                    \* the elements extract_api_elements returned

vars == <<pc, pending, swift_file, lines, doc_lines, avail_lines, type_stack,
          brace_depth, file_elements, elements, element_kind, element_name,
          branch, doc_at, avail_at, emitted, call, api_dir, dataset, run,
          first, origin, disk>>

\* what main() holds around the loader, and the history of the whole batch
driver == <<api_dir, dataset, run, first>>

batch == <<origin, disk>>

scanner == <<doc_lines, avail_lines, type_stack, brace_depth, file_elements,
             element_kind, element_name, branch, doc_at, avail_at, emitted>>

Idle == [fn |-> "idle"]

(***************************************************************************)
(* Declaration Extractor: the pieces of one loop iteration                 *)
(***************************************************************************)
\* the if/elif chain on the four patterns: <<element_kind, element_name>>
MatchDeclaration(normalized) ==
    LET type_match == type_decl_re(normalized)
        func_match == func_decl_re(normalized)
        prop_match == prop_decl_re(normalized)
    IN  IF type_match.ok THEN <<Some(type_match.kw), Some(type_match.name)>>
        ELSE IF func_match.ok THEN <<Some("func"), Some(func_match.name)>>
        ELSE IF init_decl_re(normalized).ok THEN <<Some("func"), Some("init")>>
        ELSE IF prop_match.ok THEN <<Some("property"), Some(prop_match.name)>>
        ELSE <<None, None>>

\* `if element_kind and element_name`
Matched(m) == m[1] # None /\ m[1][1] # "" /\ m[2] # None /\ m[2][1] # ""

\* Eligible without the threshold: any introduced version passes
Eligible_any_version(verdict) ==
    verdict[1] # None /\ ~verdict[2] /\ ~verdict[3]

\* Eligible with an absent version taken as the threshold version
Eligible_absent_passes(verdict) ==
    /\ verdict[1] = None \/ is_version_at_least(verdict[1], MIN_IOS_VERSION)
    /\ ~verdict[2]
    /\ ~verdict[3]

\* the eligibility test on the verdict <<introduced, deprecated, unavailable>>
Eligible(verdict) ==
    is_version_at_least(verdict[1], MIN_IOS_VERSION) /\ ~verdict[2] /\ ~verdict[3]

\* `type_stack[-1][0] if type_stack else None`
ParentType(stack) == IF stack # <<>> THEN Some(stack[Len(stack)][1]) ELSE None

\* `while type_stack and brace_depth < type_stack[-1][1]: type_stack.pop()`
RECURSIVE PopExited(_, _)
PopExited(stack, depth) ==
    IF stack # <<>> /\ depth < stack[Len(stack)][2]
    THEN PopExited(SubSeq(stack, 1, Len(stack) - 1), depth)
    ELSE stack

\* NestingUpdate without the pops
NestingUpdate_no_pop(stack, depth, line, is_type, name) ==
    LET open_braces == Count(line, "{")
        close_braces == Count(line, "}")
        new_depth == depth + open_braces - close_braces
        pushed ==
            IF is_type /\ open_braces > 0
            THEN Append(stack, <<name[1], new_depth>>)
            ELSE stack
    IN  <<pushed, new_depth>>

\* NestingUpdate pushing every type declaration, brace or not
NestingUpdate_push_always(stack, depth, line, is_type, name) ==
    LET open_braces == Count(line, "{")
        close_braces == Count(line, "}")
        new_depth == depth + open_braces - close_braces
        pushed ==
            IF is_type
            THEN Append(stack, <<name[1], new_depth>>)
            ELSE stack
    IN  <<PopExited(pushed, new_depth), new_depth>>

\* NestingUpdate pushing a type only when its element is emitted
NestingUpdate_push_emitted(stack, depth, line, is_type, name) ==
    LET open_braces == Count(line, "{")
        close_braces == Count(line, "}")
        new_depth == depth + open_braces - close_braces
        pushed ==
            IF is_type /\ open_braces > 0
                  /\ Eligible(parse_ios_availability(avail_lines))
            THEN Append(stack, <<name[1], new_depth>>)
            ELSE stack
    IN  <<PopExited(pushed, new_depth), new_depth>>

\* brace tracking, push and pops of one line: <<type_stack, brace_depth>>
NestingUpdate(stack, depth, line, is_type, name) ==
    LET open_braces == Count(line, "{")
        close_braces == Count(line, "}")
        new_depth == depth + open_braces - close_braces
        pushed ==
            IF is_type /\ open_braces > 0
            THEN Append(stack, <<name[1], new_depth>>)
            ELSE stack
    IN  <<PopExited(pushed, new_depth), new_depth>>

\* Emit with parent_type kept for func and property elements only
Emit_members_only(elems, m, stripped, file, stack, docs, avails) ==
    LET parent_type ==
            IF m[1][1] \in {"func", "property"} THEN ParentType(stack) ELSE None
        verdict == parse_ios_availability(avails)
        signature_lines ==
            [k \in 1..Len(avails) |-> Strip(avails[k])] \o <<stripped>>
    IN  IF Eligible(verdict)
        THEN Append(elems,
                 ApiElement(m[2][1], m[1][1], Join(signature_lines, "\n"),
                            clean_doc_lines(docs), verdict[1], verdict[2],
                            verdict[3], file, parent_type))
        ELSE elems

\* Emit with parent_type read after the nesting update of the same line
Emit_parent_after_update(elems, m, stripped, file, stack, docs, avails) ==
    LET parent_type ==
            ParentType(NestingUpdate(stack, brace_depth, stripped,
                                     m[1][1] \in TypeKinds, m[2])[1])
        verdict == parse_ios_availability(avails)
        signature_lines ==
            [k \in 1..Len(avails) |-> Strip(avails[k])] \o <<stripped>>
    IN  IF Eligible(verdict)
        THEN Append(elems,
                 ApiElement(m[2][1], m[1][1], Join(signature_lines, "\n"),
                            clean_doc_lines(docs), verdict[1], verdict[2],
                            verdict[3], file, parent_type))
        ELSE elems

\* the body of `if element_kind and element_name` up to the append:
\* the elements list after the matched declaration m on the line `stripped`
\* Emit with the normalized line in the signature
Emit_signature_normalized(elems, m, stripped, file, stack, docs, avails) ==
    LET parent_type == ParentType(stack)
        verdict == parse_ios_availability(avails)
        signature_lines ==
            [k \in 1..Len(avails) |-> Strip(avails[k])]
                \o <<normalize_line(stripped)>>
    IN  IF Eligible(verdict)
        THEN Append(elems,
                 ApiElement(m[2][1], m[1][1], Join(signature_lines, "\n"),
                            clean_doc_lines(docs), verdict[1], verdict[2],
                            verdict[3], file, parent_type))
        ELSE elems

Emit(elems, m, stripped, file, stack, docs, avails) ==
    LET parent_type == ParentType(stack)
        verdict == parse_ios_availability(avails)
        signature_lines ==
            [k \in 1..Len(avails) |-> Strip(avails[k])] \o <<stripped>>
    IN  IF Eligible(verdict)
        THEN Append(elems,
                 ApiElement(m[2][1], m[1][1], Join(signature_lines, "\n"),
                            clean_doc_lines(docs), verdict[1], verdict[2],
                            verdict[3], file, parent_type))
        ELSE elems

\* BufferAfter with the reset inside the eligible branch only
BufferAfter_eligible_only(buf, matched, stripped) ==
    IF matched
    THEN IF Eligible(parse_ios_availability(avail_lines)) THEN <<>> ELSE buf
    ELSE IF StartsWith(stripped, "@") THEN buf
    ELSE IF stripped # "" /\ ~StartsWith(stripped, "//") THEN <<>>
    ELSE buf

\* BufferAfter with unrelated code leaving the buffer alone
BufferAfter_noise_keeps(buf, matched, stripped) ==
    IF matched THEN <<>> ELSE buf

\* BufferAfter with an attribute-only line treated as unrelated code
BufferAfter_attribute_clears(buf, matched, stripped) ==
    IF matched THEN <<>>
    ELSE IF stripped # "" /\ ~StartsWith(stripped, "//") THEN <<>>
    ELSE buf

\* BufferAfter with empty lines and plain comments clearing as well
BufferAfter_comment_clears(buf, matched, stripped) ==
    IF matched THEN <<>>
    ELSE IF StartsWith(stripped, "@") THEN buf
    ELSE <<>>

\* what one of the two pending buffers holds after a line that is neither a
\* doc-comment nor an availability line
BufferAfter(buf, matched, stripped) ==
    IF matched THEN <<>>
    ELSE IF StartsWith(stripped, "@") THEN buf
    ELSE IF stripped # "" /\ ~StartsWith(stripped, "//") THEN <<>>
    ELSE buf

\* the path of such a line through the loop body
BranchOf(matched, stripped) ==
    IF matched THEN "decl"
    ELSE IF StartsWith(stripped, "@") THEN "attr"
    ELSE IF stripped # "" /\ ~StartsWith(stripped, "//") THEN "clear"
    ELSE "keep"

(***************************************************************************)
(* The directory: glob("*.swift") and sorted()                             *)
(***************************************************************************)
\* the characters of file names, in code-point order
Ascii ==
    " -.0123456789ABCDEFGHIJKLMNOPQRSTUVWXYZ_abcdefghijklmnopqrstuvwxyz"

Ord(c) == CHOOSE i \in 1..Len(Ascii) : CharAt(Ascii, i) = c

\* a < b on str
RECURSIVE StrLess(_, _)
StrLess(a, b) ==
    IF Len(b) = 0 THEN FALSE
    ELSE IF Len(a) = 0 THEN TRUE
    ELSE IF CharAt(a, 1) # CharAt(b, 1) THEN Ord(CharAt(a, 1)) < Ord(CharAt(b, 1))
    ELSE StrLess(SubSeq(a, 2, Len(a)), SubSeq(b, 2, Len(b)))

EndsWith(s, p) == Len(s) >= Len(p) /\ SubSeq(s, Len(s) - Len(p) + 1, Len(s)) = p

\* api_dir.glob("*.swift") over the names of the directory
GlobSwift(dir) == {f \in dir : EndsWith(f, ".swift")}

\* Sorted in descending order
RECURSIVE Sorted_descending(_)
Sorted_descending(names) ==
    IF names = {} THEN <<>>
    ELSE LET greatest == CHOOSE f \in names : \A g \in names \ {f} : StrLess(g, f)
         IN  <<greatest>> \o Sorted_descending(names \ {greatest})

RECURSIVE Sorted(_)
Sorted(names) ==
    IF names = {} THEN <<>>
    ELSE LET least == CHOOSE f \in names : \A g \in names \ {f} : StrLess(f, g)
         IN  <<least>> \o Sorted(names \ {least})

(***************************************************************************)
(* Presentation Builder                                                    *)
(***************************************************************************)
\* str(n) of an int n >= 0, as an f-string renders it
RECURSIVE IntToStr(_)
IntToStr(n) ==
    IF n < 10 THEN SubSeq("0123456789", n + 1, n + 1)
    ELSE IntToStr(n \div 10) \o SubSeq("0123456789", (n % 10) + 1, (n % 10) + 1)

format_availability(element) ==
    LET version == element.ios_introduced
    IN  IF version = None THEN "iOS 17+"
        ELSE "iOS " \o IntToStr(version[1]) \o "." \o IntToStr(version[2]) \o "+"

\* the three-backquote code fence; a backquote cannot stand in a string here,
\* so each is written as an apostrophe
Fence == "'''"

build_output_text(element) ==
    LET documented == IF element.doc # "" THEN <<element.doc, "">> ELSE <<>>
        member ==
            IF element.parent_type # None /\ element.parent_type[1] # ""
            THEN <<"Member of: " \o element.parent_type[1]>>
            ELSE <<>>
        parts ==
            documented
            \o <<"Declaration:", Fence \o "swift", Strip(element.signature),
                 Fence, "">>
            \o <<"Availability: " \o format_availability(element)>>
            \o member
            \o <<"Source: " \o element.source_file[1]>>
    IN  Strip(Join(parts, "\n"))

\* Templates with none for a property
Templates_none_for_property(kind, base, avail) ==
    IF kind \in TypeKinds
    THEN <<"Explain the " \o kind \o " " \o base \o " for " \o avail \o ".",
           "Show the Swift declaration and summary for " \o base \o " on "
               \o avail \o ".">>
    ELSE IF kind = "func"
    THEN <<"How do I use " \o base \o "() on " \o avail \o "?",
           "Describe the purpose of " \o base
               \o " and show its declaration for " \o avail \o ".">>
    ELSE <<>>

\* the templates of one kind, filled in
Templates(kind, base, avail) ==
    IF kind \in TypeKinds
    THEN <<"Explain the " \o kind \o " " \o base \o " for " \o avail \o ".",
           "Show the Swift declaration and summary for " \o base \o " on "
               \o avail \o ".">>
    ELSE IF kind = "func"
    THEN <<"How do I use " \o base \o "() on " \o avail \o "?",
           "Describe the purpose of " \o base
               \o " and show its declaration for " \o avail \o ".">>
    ELSE <<"What does " \o base \o " provide on " \o avail \o "?",
           "Document the property " \o base \o " for " \o avail \o ".">>

build_instruction_examples(element) ==
    LET output == build_output_text(element)
        base == full_name(element)
        avail == format_availability(element)
        templates == Templates(element.kind, base, avail)
    IN  [k \in 1..Len(templates) |->
            [instruction |-> templates[k], input |-> "", output |-> output]]

(***************************************************************************)
(* Sequence lengths of the fine-tuning data (run_finetuning.py)            *)
(***************************************************************************)
\* text.split(): the maximal runs of non-whitespace characters, from index i
RECURSIVE WordsFrom(_, _)
WordsFrom(text, i) ==
    LET start == SkipSet(text, i, Whitespace)
        stop == CHOOSE j \in start..(Len(text) + 1) :
                    /\ \A k \in start..(j - 1) : CharAt(text, k) \notin Whitespace
                    /\ j = Len(text) + 1 \/ CharAt(text, j) \in Whitespace
    IN  IF start > Len(text) THEN <<>>
        ELSE <<SubSeq(text, start, stop - 1)>> \o WordsFrom(text, stop)

Max(a, b) == IF a >= b THEN a ELSE b

estimate_tokens(text) ==
    LET normalized == Join(WordsFrom(text, 1), " ")
    IN  Max(1, Len(normalized) \div 4)

\* f"<|user|>\n{user_part}<|assistant|>\n{text}"
Formatted(user_part, text) ==
    "<|user|>\n" \o user_part \o "<|assistant|>\n" \o text

\* the loop over output_lines of split_long_sequence with what follows it:
\* the results once every line is handled
RECURSIVE ChunkLoop(_, _, _, _, _, _)
ChunkLoop(output_lines, current_chunk, current_tokens, results, user_part, available_for_output) ==
    IF output_lines = <<>>
    THEN IF current_chunk # <<>>
         THEN Append(results,
                     [text |-> Formatted(user_part, Join(current_chunk, "\n"))])
         ELSE results
    ELSE LET line == Head(output_lines)
             rest == Tail(output_lines)
             line_tokens == estimate_tokens(line)
         IN  IF Strip(line) = ""
             THEN ChunkLoop(rest, current_chunk, current_tokens, results,
                            user_part, available_for_output)
             ELSE IF current_tokens + line_tokens > available_for_output
                        /\ current_chunk # <<>>
             THEN ChunkLoop(rest, <<line>>, line_tokens,
                            Append(results,
                                   [text |-> Formatted(user_part,
                                                       Join(current_chunk, "\n"))]),
                            user_part, available_for_output)
             ELSE ChunkLoop(rest, Append(current_chunk, line),
                            current_tokens + line_tokens, results, user_part,
                            available_for_output)

split_long_sequence(user_part, assistant_part, max_tokens) ==
    LET formatted == Formatted(user_part, assistant_part)
        user_tokens == estimate_tokens(Formatted(user_part, ""))
        available_for_output == Max(100, max_tokens - user_tokens - 20)
        results == ChunkLoop(Split(assistant_part, "\n"), <<>>, 0, <<>>,
                             user_part, available_for_output)
    IN  IF estimate_tokens(formatted) <= max_tokens
        THEN <<[text |-> formatted]>>
        ELSE IF results # <<>> THEN results
        ELSE <<[text |-> formatted]>>

(***************************************************************************)
(* Inputs: the lines a file is made of, the names a directory holds        *)
(***************************************************************************)
Doc1 == "/// Does X."

DocBlank == "    ///"

Avail17 == "@available(iOS 17.0, *)"

Avail16 == "@available(iOS 16.0, *)"

AvailUnavailable == "@available(iOS, unavailable)"

AvailDeprecated == "@available(iOS, introduced: 18.0, deprecated: 19.0)"

AvailMacDeprecated == "@available(macOS, deprecated: 12.0)"

StructFoo == "public struct Foo {"

ClassBar == "open class Bar {"

FuncBar == "    public func bar()"

FuncQux == "func qux() -> Int"

PropBaz == "var baz: Int { get }"

ActorWorker == "actor Worker {"

Avail18_2 == "@available(iOS 18.2, *)"

CloseBrace == "}"

Noise == "import UIKit"

MutatingFunc == "public mutating func f()"

ConvenienceInit == "public convenience init(x: Int)"

NonisolatedVar == "public nonisolated var x: Int"

InlinableFunc == "  @inlinable nonisolated public func g()"

StaticFunc == "public static func make()"

ClassFunc == "public class func build() {"

ClassVar == "class var shared: Foo"

StaticLet == "static let shared = Foo()"

MainActor == "@MainActor"

Comment == "// MARK: - Members"

BlankLine == ""

AvailMacUnavailable == "@available(macOS, unavailable)"

AvailStarDeprecated == "@available(*, deprecated)"

AvailBoth == "@available(iOS 18.0, introduced: 16.0)"

StructBaz == "public struct Baz"

OpenBrace == "{"

StructEmpty == "struct Empty {}"

StructThenClose == "struct Late {} }"

DocBraces == "/// Opens { a scope"

AvailFuncA == "@available(iOS 17.0, *) public func a() {"

FuncB == "public func b()"

CommentBrace == "// }"

BlankSpaces == "   "

DocLineSet == {Doc1, DocBlank}

Catalogue ==
    {Doc1, DocBlank, Avail17, Avail16, AvailUnavailable, AvailDeprecated,
     AvailMacDeprecated, StructFoo, FuncBar, PropBaz, CloseBrace, Noise}

DocumentedLines ==
    {Doc1, DocBlank, Avail17, Avail18_2, StructFoo, ActorWorker, CloseBrace}

NestingLines == {StructFoo, ClassBar, Avail17, FuncBar, FuncQux, CloseBrace}

BatchLines == {Avail17, StructFoo, FuncBar}

TwiceLines == {Avail17, StructFoo, FuncBar, PropBaz}

AvailabilityLines ==
    {Avail17, Avail16, Avail18_2, AvailUnavailable, AvailDeprecated, AvailBoth,
     AvailMacDeprecated, AvailMacUnavailable, AvailStarDeprecated}

BraceLines ==
    {Avail17, StructFoo, StructBaz, StructEmpty, StructThenClose, OpenBrace,
     CloseBrace, FuncBar}

ContextLines ==
    {Doc1, DocBraces, Avail17, AvailFuncA, StructFoo, FuncB, CommentBrace,
     BlankSpaces, CloseBrace}

FilteredLines ==
    {Avail17, Avail16, AvailUnavailable, AvailDeprecated, StructFoo, FuncBar}

AttributeLines ==
    {Doc1, Avail17, MainActor, Noise, CloseBrace, Comment, BlankLine, FuncBar}

ModifierLines ==
    {Doc1, Avail17, AvailMacDeprecated, MutatingFunc, ConvenienceInit,
     NonisolatedVar, InlinableFunc, StaticFunc, ClassFunc, ClassVar, StaticLet}

OneFile == {{"Api.swift"}}

Directories == SUBSET {"B.swift", "A.swift", "notes.txt"}

MaxLines == 4

NestingMaxLines == 6

BatchMaxLines == 4

DocumentedMaxLines == 5

TwiceMaxLines == 2

ModifiersMaxLines == 3

AttributesMaxLines == 4

MaxAvailLines == 3

BracesMaxLines == 4

ContextMaxLines == 4

FilteredMaxLines == 4

MaxTokenLimit == 10

MaxMajor == 18

MaxMinor == 9

\* the versions is_version_at_least is applied to on its own
Versions ==
    {<<major, minor>> : major \in (MIN_IOS_VERSION[1] - 1)..MaxMajor,
                        minor \in 0..MaxMinor}

Inputs ==
    Catalogue \cup NestingLines \cup BatchLines \cup DocumentedLines
        \cup TwiceLines \cup ModifierLines \cup AttributeLines \cup BraceLines
        \cup ContextLines \cup FilteredLines

\* what the loop body computes from the line alone, tabulated per input line
Patterns ==
    [line \in Inputs |->
        LET stripped == Strip(line)
            normalized == normalize_line(stripped)
        IN  [stripped |-> stripped,
             declaration |-> MatchDeclaration(normalized),
             type_match |-> type_decl_re(normalized).ok]]

(***************************************************************************)
(* Actions                                                                 *)
(***************************************************************************)
\* ScanLine with the brace tracking applied to doc-comment and availability
\* lines too
ScanLine_braces_everywhere(line) ==
    LET stripped == Patterns[line].stripped
        n == Len(lines) + 1
        m == Patterns[line].declaration
        is_type == Patterns[line].type_match
        nest == NestingUpdate(type_stack, brace_depth, line, is_type, m[2])
        out == Emit(file_elements, m, stripped, swift_file, type_stack,
                    doc_lines, avail_lines)
    IN  /\ pc = "scan"
        /\ lines' = Append(lines, line)
        /\ UNCHANGED <<pc, pending, swift_file, elements, call, driver, batch>>
        /\ IF StartsWith(stripped, "///")
           THEN /\ doc_lines' = Append(doc_lines, stripped)
                /\ doc_at' = Append(doc_at, n)
                /\ branch' = "doc"
                /\ type_stack' = nest[1]
                /\ brace_depth' = nest[2]
                /\ UNCHANGED <<avail_lines, avail_at, file_elements,
                               element_kind, element_name, emitted>>
           ELSE IF StartsWith(stripped, "@available")
           THEN /\ avail_lines' = Append(avail_lines, stripped)
                /\ avail_at' = Append(avail_at, n)
                /\ branch' = "avail"
                /\ type_stack' = nest[1]
                /\ brace_depth' = nest[2]
                /\ UNCHANGED <<doc_lines, doc_at, file_elements, element_kind,
                               element_name, emitted>>
           ELSE /\ element_kind' = m[1]
                /\ element_name' = m[2]
                /\ file_elements' = IF Matched(m) THEN out ELSE file_elements
                /\ emitted' =
                      IF Matched(m) /\ Len(out) > Len(file_elements)
                      THEN Append(emitted,
                               [line |-> n, doc_at |-> doc_at,
                                avail_at |-> avail_at, stack |-> type_stack])
                      ELSE emitted
                /\ type_stack' = nest[1]
                /\ brace_depth' = nest[2]
                /\ doc_lines' = BufferAfter(doc_lines, Matched(m), stripped)
                /\ avail_lines' = BufferAfter(avail_lines, Matched(m), stripped)
                /\ doc_at' = BufferAfter(doc_at, Matched(m), stripped)
                /\ avail_at' = BufferAfter(avail_at, Matched(m), stripped)
                /\ branch' = BranchOf(Matched(m), stripped)

\* one iteration of `for line in lines` of extract_api_elements
ScanLine(line) ==
    LET stripped == Patterns[line].stripped
        n == Len(lines) + 1
        m == Patterns[line].declaration
        is_type == Patterns[line].type_match
        nest == NestingUpdate(type_stack, brace_depth, line, is_type, m[2])
        out == Emit(file_elements, m, stripped, swift_file, type_stack,
                    doc_lines, avail_lines)
    IN  /\ pc = "scan"
        /\ lines' = Append(lines, line)
        /\ UNCHANGED <<pc, pending, swift_file, elements, call, driver, batch>>
        /\ IF StartsWith(stripped, "///")
           THEN /\ doc_lines' = Append(doc_lines, stripped)
                /\ doc_at' = Append(doc_at, n)
                /\ branch' = "doc"
                /\ UNCHANGED <<avail_lines, avail_at, type_stack, brace_depth,
                               file_elements, element_kind, element_name,
                               emitted>>
           ELSE IF StartsWith(stripped, "@available")
           THEN /\ avail_lines' = Append(avail_lines, stripped)
                /\ avail_at' = Append(avail_at, n)
                /\ branch' = "avail"
                /\ UNCHANGED <<doc_lines, doc_at, type_stack, brace_depth,
                               file_elements, element_kind, element_name,
                               emitted>>
           ELSE /\ element_kind' = m[1]
                /\ element_name' = m[2]
                /\ file_elements' = IF Matched(m) THEN out ELSE file_elements
                /\ emitted' =
                      IF Matched(m) /\ Len(out) > Len(file_elements)
                      THEN Append(emitted,
                               [line |-> n, doc_at |-> doc_at,
                                avail_at |-> avail_at, stack |-> type_stack])
                      ELSE emitted
                /\ type_stack' = nest[1]
                /\ brace_depth' = nest[2]
                /\ doc_lines' = BufferAfter(doc_lines, Matched(m), stripped)
                /\ avail_lines' = BufferAfter(avail_lines, Matched(m), stripped)
                /\ doc_at' = BufferAfter(doc_at, Matched(m), stripped)
                /\ avail_at' = BufferAfter(avail_at, Matched(m), stripped)
                /\ branch' = BranchOf(Matched(m), stripped)

\* FreshScan with the buffers, the stack and the depth kept from the file before
FreshScan_keeps_pending ==
    /\ lines' = <<>>
    /\ file_elements' = <<>>
    /\ element_kind' = None
    /\ element_name' = None
    /\ branch' = "start"
    /\ emitted' = <<>>
    /\ UNCHANGED <<doc_lines, avail_lines, type_stack, brace_depth, doc_at,
                   avail_at>>

\* the scanner state extract_api_elements starts a file with
FreshScan ==
    /\ lines' = <<>>
    /\ doc_lines' = <<>>
    /\ avail_lines' = <<>>
    /\ type_stack' = <<>>
    /\ brace_depth' = 0
    /\ file_elements' = <<>>
    /\ element_kind' = None
    /\ element_name' = None
    /\ branch' = "start"
    /\ doc_at' = <<>>
    /\ avail_at' = <<>>
    /\ emitted' = <<>>

\* the sequences of a sequence of sequences, one after the other
RECURSIVE Flatten(_)
Flatten(seqs) == IF seqs = <<>> THEN <<>> ELSE Head(seqs) \o Flatten(Tail(seqs))

\* OpenFile taking the files in the order glob happens to yield them
OpenFile_glob_order ==
    /\ pc = "batch"
    /\ pending # <<>>
    /\ pc' = "scan"
    /\ \E k \in 1..Len(pending) :
          /\ swift_file' = Some(pending[k])
          /\ pending' = SubSeq(pending, 1, k - 1)
                            \o SubSeq(pending, k + 1, Len(pending))
    /\ FreshScan
    /\ UNCHANGED <<elements, call, driver, batch>>

\* load_all_api_elements takes the next file and read_text succeeds
OpenFile ==
    /\ pc = "batch"
    /\ pending # <<>>
    /\ pc' = "scan"
    /\ swift_file' = Some(Head(pending))
    /\ pending' = Tail(pending)
    /\ FreshScan
    /\ UNCHANGED <<elements, call, driver, batch>>

\* load_all_api_elements takes the next file and read_text raises (OSError,
\* UnicodeDecodeError): nothing catches it in extract_api_elements or in
\* load_all_api_elements
ReadError ==
    /\ pc = "batch"
    /\ pending # <<>>
    /\ pc' = "raised"
    /\ swift_file' = Some(Head(pending))
    /\ pending' = Tail(pending)
    /\ UNCHANGED <<lines, scanner, elements, call, driver, batch>>

\* the file has no further line: extract_api_elements returns and
\* load_all_api_elements extends its list
ReturnElements ==
    /\ pc = "scan"
    /\ pc' = "batch"
    /\ elements' = elements \o file_elements
    /\ origin' = origin \o [k \in 1..Len(emitted) |->
                               [file |-> swift_file[1], line |-> emitted[k].line]]
    /\ disk' = Append(disk, [file |-> swift_file[1], lines |-> lines,
                             elements |-> file_elements])
    /\ UNCHANGED <<pending, swift_file, lines, scanner, call, driver>>

\* no further file: load_all_api_elements returns
Finish ==
    /\ pc = "batch"
    /\ pending = <<>>
    /\ pc' = "done"
    /\ UNCHANGED <<pending, swift_file, lines, scanner, elements, call, driver,
                   batch>>

\* main() after the loader returned: every element is expanded in turn
BuildDataset ==
    /\ pc = "done"
    /\ pc' = "built"
    /\ dataset' = Flatten([k \in 1..Len(elements) |->
                              build_instruction_examples(elements[k])])
    /\ UNCHANGED <<pending, swift_file, lines, scanner, elements, call, api_dir,
                   run, first, batch>>

\* main() is executed a second time on the same directory
Rerun ==
    /\ pc = "built"
    /\ run = 1
    /\ run' = 2
    /\ first' = Some([elements |-> elements, dataset |-> dataset, disk |-> disk])
    /\ pc' = "batch"
    /\ pending' = Sorted(GlobSwift(api_dir))
    /\ elements' = <<>>
    /\ dataset' = <<>>
    /\ origin' = <<>>
    /\ disk' = <<>>
    /\ UNCHANGED <<swift_file, lines, scanner, call, api_dir>>

\* the lines the first execution read from the file now being scanned
Content ==
    LET k == CHOOSE k \in 1..Len(first[1].disk) :
                 first[1].disk[k].file = swift_file[1]
    IN  first[1].disk[k].lines

\* the second execution reads from its file the line the first one read
Reread ==
    /\ run = 2
    /\ pc = "scan"
    /\ Len(lines) < Len(Content)
    /\ ScanLine(Content[Len(lines) + 1])

\* ReturnElements, on the second execution after the last line of the file
EndOfFile ==
    /\ pc = "scan"
    /\ run = 2 => lines = Content
    /\ ReturnElements

(***************************************************************************)
(* Specifications                                                          *)
(***************************************************************************)
\* no file has been opened
Blank ==
    /\ swift_file = None
    /\ lines = <<>>
    /\ doc_lines = <<>>
    /\ avail_lines = <<>>
    /\ type_stack = <<>>
    /\ brace_depth = 0
    /\ file_elements = <<>>
    /\ elements = <<>>
    /\ element_kind = None
    /\ element_name = None
    /\ branch = "start"
    /\ doc_at = <<>>
    /\ avail_at = <<>>
    /\ emitted = <<>>
    /\ dataset = <<>>
    /\ run = 1
    /\ first = None
    /\ origin = <<>>
    /\ disk = <<>>

\* load_all_api_elements is entered on one of the directories dirs
InitOn(dirs) ==
    /\ pc = "batch"
    /\ api_dir \in dirs
    /\ pending = Sorted(GlobSwift(api_dir))
    /\ call = Idle
    /\ Blank

\* the files hold at most `most` lines, each drawn from `alphabet`
Read(alphabet, most) == \E line \in alphabet : Len(lines) < most /\ ScanLine(line)

\* one file of at most MaxLines lines of the catalogue
Init == InitOn(OneFile)

Next ==
    \/ OpenFile
    \/ ReadError
    \/ Read(Catalogue, MaxLines)
    \/ ReturnElements
    \/ Finish

Spec == Init /\ [][Next]_vars

\* one file of at most NestingMaxLines lines: types, their members, braces
NextNesting ==
    \/ OpenFile
    \/ ReadError
    \/ Read(NestingLines, NestingMaxLines)
    \/ ReturnElements
    \/ Finish

SpecNesting == Init /\ [][NextNesting]_vars

\* a directory of up to two .swift files of at most BatchMaxLines lines
InitBatch == InitOn(Directories)

NextBatch ==
    \/ OpenFile
    \/ ReadError
    \/ Read(BatchLines, BatchMaxLines)
    \/ ReturnElements
    \/ Finish

SpecBatch == InitBatch /\ [][NextBatch]_vars

\* one file of at most DocumentedMaxLines lines: documented, available types
NextDocumented ==
    \/ OpenFile
    \/ ReadError
    \/ Read(DocumentedLines, DocumentedMaxLines)
    \/ ReturnElements
    \/ Finish

SpecDocumented == Init /\ [][NextDocumented]_vars

\* one file of at most ModifiersMaxLines lines: declarations behind attributes
\* and modifiers
NextModifiers ==
    \/ OpenFile
    \/ ReadError
    \/ Read(ModifierLines, ModifiersMaxLines)
    \/ ReturnElements
    \/ Finish

SpecModifiers == Init /\ [][NextModifiers]_vars

\* one file of at most AttributesMaxLines lines: pending context, then
\* attribute-only lines, unrelated code, comments and blank lines before a
\* declaration
NextAttributes ==
    \/ OpenFile
    \/ ReadError
    \/ Read(AttributeLines, AttributesMaxLines)
    \/ ReturnElements
    \/ Finish

SpecAttributes == Init /\ [][NextAttributes]_vars

\* one file of at most BracesMaxLines lines: types with their brace on the
\* line, on a later line, opened and closed on the line, closing one more
NextBraces ==
    \/ OpenFile
    \/ ReadError
    \/ Read(BraceLines, BracesMaxLines)
    \/ ReturnElements
    \/ Finish

SpecBraces == Init /\ [][NextBraces]_vars

\* one file of at most ContextMaxLines lines: doc-comment and availability
\* lines that hold braces or a declaration, comments and blank lines
NextContext ==
    \/ OpenFile
    \/ ReadError
    \/ Read(ContextLines, ContextMaxLines)
    \/ ReturnElements
    \/ Finish

SpecContext == Init /\ [][NextContext]_vars

\* one file of at most FilteredMaxLines lines: a type under every kind of
\* availability, and a member
NextFiltered ==
    \/ OpenFile
    \/ ReadError
    \/ Read(FilteredLines, FilteredMaxLines)
    \/ ReturnElements
    \/ Finish

SpecFiltered == Init /\ [][NextFiltered]_vars

\* main() twice on one directory of up to two .swift files of at most
\* TwiceMaxLines lines, every file readable and the same both times
NextTwice ==
    \/ OpenFile
    \/ run = 1 /\ Read(TwiceLines, TwiceMaxLines)
    \/ Reread
    \/ EndOfFile
    \/ Finish
    \/ BuildDataset
    \/ Rerun

SpecTwice == InitBatch /\ [][NextTwice]_vars

\* is_version_at_least applied to one (version, target) pair
InitVersion ==
    /\ pc = "call"
    /\ api_dir = {}
    /\ pending = <<>>
    /\ call \in {[fn |-> "is_version_at_least", version |-> v, target |-> t,
                  result |-> None] : v \in Versions \cup {None}, t \in Versions}
    /\ Blank

ApplyIsVersionAtLeast ==
    /\ pc = "call"
    /\ call.fn = "is_version_at_least"
    /\ call.result = None
    /\ call' = [call EXCEPT
                   !.result = Some(is_version_at_least(call.version, call.target))]
    /\ UNCHANGED <<pc, pending, swift_file, lines, scanner, elements, driver,
                   batch>>

NextVersion == ApplyIsVersionAtLeast

SpecVersion == InitVersion /\ [][NextVersion]_vars

\* the instruction and the output of one dataset row, and the token limits
UserParts == {"Explain Foo.", "What does Foo.bar provide on iOS 17.0+?"}

AssistantParts ==
    {"Foo.",
     "Declaration:\nstruct Foo",
     "Declaration:\n\npublic struct Foo {\n\nAvailability: iOS 17.0+",
     "Stores the items of one batch and hands them out in order.",
     "   ",
     "Does X.\n\nDeclaration:\npublic func bar()\n\nAvailability: iOS 17.0+\nMember of: Foo\nSource: Api.swift"}

TokenLimits == 1..MaxTokenLimit

\* split_long_sequence applied to one row under one limit
InitSplit ==
    /\ pc = "call"
    /\ api_dir = {}
    /\ pending = <<>>
    /\ call \in {[fn |-> "split_long_sequence", user_part |-> u,
                  assistant_part |-> a, max_tokens |-> m, result |-> None] :
                     u \in UserParts, a \in AssistantParts, m \in TokenLimits}
    /\ Blank

ApplySplitLongSequence ==
    /\ pc = "call"
    /\ call.fn = "split_long_sequence"
    /\ call.result = None
    /\ call' = [call EXCEPT
                   !.result = Some(split_long_sequence(call.user_part,
                                                       call.assistant_part,
                                                       call.max_tokens))]
    /\ UNCHANGED <<pc, pending, swift_file, lines, scanner, elements, driver,
                   batch>>

NextSplit == ApplySplitLongSequence

SpecSplit == InitSplit /\ [][NextSplit]_vars

\* the sequences of at most n members of S
RECURSIVE SeqsUpTo(_, _)
SeqsUpTo(S, n) ==
    IF n = 0 THEN {<<>>}
    ELSE LET shorter == SeqsUpTo(S, n - 1)
         IN  shorter \cup {Append(q, x) : q \in shorter, x \in S}

\* parse_ios_availability applied to one buffer of at most MaxAvailLines lines
InitAvailability ==
    /\ pc = "call"
    /\ api_dir = {}
    /\ pending = <<>>
    /\ call \in {[fn |-> "parse_ios_availability", avail_lines |-> buf,
                  result |-> None] : buf \in SeqsUpTo(AvailabilityLines,
                                                      MaxAvailLines)}
    /\ Blank

ApplyParseIosAvailability ==
    /\ pc = "call"
    /\ call.fn = "parse_ios_availability"
    /\ call.result = None
    /\ call' = [call EXCEPT
                   !.result = Some(parse_ios_availability(call.avail_lines))]
    /\ UNCHANGED <<pc, pending, swift_file, lines, scanner, elements, driver,
                   batch>>

NextAvailability == ApplyParseIosAvailability

SpecAvailability == InitAvailability /\ [][NextAvailability]_vars


(***************************************************************************)
(* Properties                                                              *)
(***************************************************************************)
\* a step that is one iteration of the line loop
ScanStep == pc = "scan" /\ Len(lines') = Len(lines) + 1

\* the line is handed to the pattern matchers and one of them matches
IsDeclarationLine(line) ==
    /\ ~StartsWith(Patterns[line].stripped, "///")
    /\ ~StartsWith(Patterns[line].stripped, "@available")
    /\ Matched(Patterns[line].declaration)

MeetsThreshold(e) ==
    /\ e.ios_introduced # None
    /\ \/ e.ios_introduced[1] > MIN_IOS_VERSION[1]
       \/ /\ e.ios_introduced[1] = MIN_IOS_VERSION[1]
          /\ e.ios_introduced[2] >= MIN_IOS_VERSION[2]
    /\ ~e.deprecated
    /\ ~e.unavailable

\* C1: a line that matches a declaration pattern appends exactly one element
\* when the verdict of the pending availability buffer has introduced present
\* and >= (17,0), deprecated false and unavailable false, and appends nothing
\* otherwise (so a declaration after only `@available(iOS 16.0, *)` yields
\* nothing); no other line appends; every element of the scanned file and of
\* the batch has ios_introduced present and >= (17,0) and both flags false.
C1_EligibleOnly ==
    [][ScanStep =>
        LET v == parse_ios_availability(avail_lines)
            pass == MeetsThreshold([ios_introduced |-> v[1], deprecated |-> v[2],
                                    unavailable |-> v[3]])
            grown == Len(file_elements') - Len(file_elements)
        IN  /\ grown = IF branch' = "decl" /\ pass THEN 1 ELSE 0
            /\ SubSeq(file_elements', 1, Len(file_elements)) = file_elements
            /\ branch' = "decl" /\ avail_lines = <<Avail16>> => grown = 0
            /\ \A k \in 1..Len(file_elements') : MeetsThreshold(file_elements'[k])
            /\ \A k \in 1..Len(elements') : MeetsThreshold(elements'[k])
       ]_vars

\* one declaration refused below the threshold, the next one emitted
C1_Witness ==
    /\ lines = <<Avail16, StructFoo, Avail17, FuncBar>>
    /\ branch = "decl"
    /\ Len(file_elements) = 1
    /\ file_elements[1].name = "bar"

\* C2: after any line that matches a declaration pattern, emitted or not, the
\* doc buffer and the availability buffer are both empty; and no doc-comment
\* or availability line that precedes a matched declaration line D is among
\* the pending lines of an element emitted for a line after D.
C2_BuffersConsumed ==
    /\ branch = "decl" => doc_lines = <<>> /\ avail_lines = <<>>
    /\ \A i \in 1..Len(emitted) : \A D \in 1..(emitted[i].line - 1) :
          IsDeclarationLine(lines[D]) =>
             /\ \A k \in 1..Len(emitted[i].doc_at) : emitted[i].doc_at[k] > D
             /\ \A k \in 1..Len(emitted[i].avail_at) : emitted[i].avail_at[k] > D

\* a refused declaration with pending lines, then an emitted one
C2_Witness ==
    /\ lines = <<AvailDeprecated, StructFoo, Avail17, PropBaz>>
    /\ branch = "decl"
    /\ Len(emitted) = 1
    /\ emitted[1].line = 4
    /\ emitted[1].avail_at = <<3>>


\* C3: a failing read of one source file is caught for that file only: the
\* batch goes on with the next file and no exception leaves
\* load_all_api_elements.
C3_ReadFailureIsolated == pc # "raised"

\* what the declaration lines of the inputs declare, written out by hand
TypeName == StructFoo :> "Foo" @@ ClassBar :> "Bar" @@ ActorWorker :> "Worker"

TypeKeyword == StructFoo :> "struct" @@ ClassBar :> "class" @@ ActorWorker :> "actor"

FunctionName == FuncBar :> "bar" @@ FuncQux :> "qux"

IntroducedBy == Avail17 :> <<17, 0>> @@ Avail18_2 :> <<18, 2>>

\* C4: from an empty nesting stack and depth 0, the lines (type declaration
\* opening a brace; function declaration; closing brace; second function
\* declaration), each function preceded by an eligible availability line,
\* give two function elements: the first has parent_type equal to the type's
\* name, the second has parent_type absent.
C4_NestingAttribution ==
    \A T \in {StructFoo, ClassBar} : \A F1, F2 \in {FuncBar, FuncQux} :
        lines = <<T, Avail17, F1, CloseBrace, Avail17, F2>> =>
            /\ Len(file_elements) = 2
            /\ file_elements[1].kind = "func"
            /\ file_elements[1].name = FunctionName[F1]
            /\ file_elements[1].parent_type = Some(TypeName[T])
            /\ file_elements[2].kind = "func"
            /\ file_elements[2].name = FunctionName[F2]
            /\ file_elements[2].parent_type = None

C4_Witness ==
    /\ lines = <<ClassBar, Avail17, FuncBar, CloseBrace, Avail17, FuncQux>>
    /\ Len(file_elements) = 2
    /\ type_stack = <<>>
    /\ brace_depth = 0

\* C5 as stated: every emitted element of a type kind has parent_type absent,
\* also when it is matched while the nesting stack is non-empty.
C5_TypesHaveNoParent ==
    \A k \in 1..Len(file_elements) :
        file_elements[k].kind \in TypeKinds => file_elements[k].parent_type = None

\* C5 amended: parent_type is set on an emitted element of any kind exactly
\* when the nesting stack is non-empty at its match, and is then the name on
\* top of that stack; so a type-kind element has parent_type absent iff it is
\* matched with an empty stack.  Only full_name keeps the parent out of the
\* name of a type.
C5_ParentFollowsNesting ==
    \A k \in 1..Len(file_elements) :
        LET e == file_elements[k]
            stack == emitted[k].stack
        IN  /\ e.parent_type = None <=> stack = <<>>
            /\ stack # <<>> => e.parent_type = <<stack[Len(stack)][1]>>
            /\ e.kind \in TypeKinds => full_name(e) = e.name

\* a type emitted inside the braces of another type
C5_Witness ==
    \E k \in 1..Len(file_elements) :
        /\ file_elements[k].kind \in TypeKinds
        /\ file_elements[k].parent_type = <<"Foo">>
        /\ emitted[k].stack # <<>>

\* C6: the parent_type of the declaration matched on line N is the name on
\* top of the nesting stack as it stood after line N-1 (absent when that
\* stack was empty); the brace count, push and pops of line N do not affect
\* it, so a type declaration is not reported as its own parent.
C6_ParentBeforeUpdate ==
    [][ScanStep /\ Len(file_elements') = Len(file_elements) + 1 =>
        LET e == file_elements'[Len(file_elements')]
        IN  /\ e.parent_type =
                  IF type_stack = <<>> THEN None
                  ELSE <<type_stack[Len(type_stack)][1]>>
            /\ lines' = <<Avail17, StructFoo>> => e.parent_type = None
            /\ lines' = <<StructFoo, Avail17, FuncBar>> => e.parent_type = <<"Foo">>
       ]_vars

\* an emitted type declaration whose own line pushed it on the stack
C6_Witness ==
    /\ branch = "decl"
    /\ Len(emitted) >= 1
    /\ emitted[Len(emitted)].line = Len(lines)
    /\ emitted[Len(emitted)].stack = <<>>
    /\ type_stack # <<>>
    /\ file_elements[Len(file_elements)].parent_type = None

\* C7: when the pending availability buffer at a matched declaration is
\* exactly one line and that line contains "deprecated", no element is
\* emitted, whatever version the line introduces and whether or not it
\* mentions iOS.
C7_OnlyLineDeprecated ==
    [][ScanStep /\ branch' = "decl" /\ Len(avail_lines) = 1
        /\ (Contains(avail_lines[1], "deprecated")
            \/ avail_lines[1] \in {AvailDeprecated, AvailMacDeprecated})
        => file_elements' = file_elements
       ]_vars

\* a declaration after a deprecated line that introduces iOS 18.0
C7_Witness ==
    /\ Len(lines) >= 2
    /\ lines[Len(lines) - 1] = AvailDeprecated
    /\ (Len(lines) > 2 => IsDeclarationLine(lines[Len(lines) - 2]))
    /\ branch = "decl"
    /\ Len(emitted) = 0

\* C8: when the pending availability buffer at a matched declaration holds a
\* line `@available(iOS, unavailable)`, no element is emitted, whatever other
\* availability lines stand before or after it and whatever the kind of the
\* declaration.
C8_UnavailableExcluded ==
    [][ScanStep /\ branch' = "decl"
        /\ (\E k \in 1..Len(avail_lines) : avail_lines[k] = AvailUnavailable)
        => file_elements' = file_elements
       ]_vars

\* unavailable first, an eligible version after it, then a declaration
C8_Witness ==
    /\ \E d \in {StructFoo, FuncBar, PropBaz} :
          lines = <<AvailUnavailable, Avail17, d>>
    /\ branch = "decl"
    /\ file_elements = <<>>

\* C9: doc-comment lines, one availability line `@available(iOS M.m, *)`
\* with (M,m) >= (17,0), a type declaration line opening a brace and a
\* closing-brace line yield exactly one element: kind the type keyword, name
\* the declared identifier, doc the cleaned text of exactly those doc lines,
\* introduced (M,m), deprecated and unavailable false, parent_type absent.
C9_DocumentedType ==
    \A n \in 1..(Len(lines) - 3) :
        LET docs == SubSeq(lines, 1, n)
            A == lines[n + 1]
            T == lines[n + 2]
        IN  (/\ Len(lines) = n + 3
             /\ \A k \in 1..n : docs[k] \in DocLineSet
             /\ A \in {Avail17, Avail18_2}
             /\ T \in {StructFoo, ActorWorker}
             /\ lines[n + 3] = CloseBrace)
            => /\ Len(file_elements) = 1
               /\ file_elements[1].kind = TypeKeyword[T]
               /\ file_elements[1].name = TypeName[T]
               /\ file_elements[1].doc =
                     clean_doc_lines([k \in 1..n |-> Strip(docs[k])])
               /\ docs = <<DocBlank>> => file_elements[1].doc = ""
               /\ docs = <<Doc1>> => file_elements[1].doc = "Does X."
               /\ docs = <<Doc1, DocBlank>> => file_elements[1].doc = "Does X."
               /\ docs = <<Doc1, DocBlank, Doc1>> =>
                     file_elements[1].doc = "Does X.\n\nDoes X."
               /\ emitted[1].doc_at = [k \in 1..n |-> k]
               /\ file_elements[1].ios_introduced = IntroducedBy[A]
               /\ ~file_elements[1].deprecated
               /\ ~file_elements[1].unavailable
               /\ file_elements[1].parent_type = None

\* the scenario of the specification, and one with two doc lines
C9_Witness ==
    /\ \/ lines = <<Doc1, Avail17, StructFoo, CloseBrace>>
       \/ lines = <<DocBlank, Doc1, Avail18_2, ActorWorker, CloseBrace>>
    /\ Len(file_elements) = 1
    /\ file_elements[1].doc = "Does X."
    /\ pc = "done"

\* C10: is_version_at_least(v, t) is false when v is None, and otherwise true
\* iff v.major > t.major, or v.major = t.major and v.minor >= t.minor.
\* ((17,0),(17,0)) is true, ((16,9),(17,0)) false, ((18,0),(17,0)) true.
C10_VersionOrder ==
    call.fn = "is_version_at_least" /\ call.result # None =>
        LET v == call.version
            t == call.target
        IN  /\ v = None => call.result = <<FALSE>>
            /\ v # None =>
                  call.result = <<v[1] > t[1] \/ (v[1] = t[1] /\ v[2] >= t[2])>>
            /\ v = <<17, 0>> /\ t = <<17, 0>> => call.result = <<TRUE>>
            /\ v = <<16, 9>> /\ t = <<17, 0>> => call.result = <<FALSE>>
            /\ v = <<18, 0>> /\ t = <<17, 0>> => call.result = <<TRUE>>

\* a larger major with a smaller minor meets the target
C10_Witness ==
    /\ call.fn = "is_version_at_least"
    /\ call.version = <<18, 0>>
    /\ call.target = <<17, 5>>
    /\ call.result = <<TRUE>>

\* C11: the sequence load_all_api_elements builds is the concatenation, in
\* ascending file-name order, of what extract_api_elements returned per file
\* (every .swift file of the directory once it has returned), and within a
\* file the elements stand in the order of their declaration lines
C11_SortedConcatenation ==
    /\ elements = Flatten([k \in 1..Len(disk) |-> disk[k].elements])
    /\ \A i, j \in 1..Len(disk) : i < j => StrLess(disk[i].file, disk[j].file)
    /\ pc = "done" => {disk[k].file : k \in 1..Len(disk)} = GlobSwift(api_dir)
    /\ Len(origin) = Len(elements)
    /\ \A k \in 1..Len(elements) : elements[k].source_file = Some(origin[k].file)
    /\ \A i, j \in 1..Len(origin) : i < j =>
          \/ StrLess(origin[i].file, origin[j].file)
          \/ origin[i].file = origin[j].file /\ origin[i].line < origin[j].line
    /\ \A i, j \in 1..Len(elements) :
          (elements[i].source_file = Some("B.swift")
              /\ elements[j].source_file = Some("A.swift")) => j < i

\* two elements of A.swift, from its lines 2 and 4, then one of B.swift
C11_Witness ==
    /\ pc = "done"
    /\ origin = <<[file |-> "A.swift", line |-> 2],
                  [file |-> "A.swift", line |-> 4],
                  [file |-> "B.swift", line |-> 2]>>
    /\ elements[2].name = "bar"
    /\ elements[3].name = "Foo"

\* C12: a second execution over the same directory and the same file contents
\* ends with the same elements in the same order and the same instruction
\* records in the same order as the first
C12_Reproducible ==
    (run = 2 /\ pc = "built") =>
        /\ elements = first[1].elements
        /\ dataset = first[1].dataset

\* both executions ended; each file gave an element, so the order of the files
\* shows in the output
C12_Witness ==
    /\ run = 2
    /\ pc = "built"
    /\ Len(elements) = 2
    /\ elements[1].source_file = Some("A.swift")
    /\ elements[2].source_file = Some("B.swift")
    /\ elements[1].name # elements[2].name
    /\ Len(dataset) = 4

\* the element e, had it come from the file named file
FromFile(e, file) == [e EXCEPT !.source_file = Some(file)]

\* C13: every file is entered with empty buffers, an empty type stack and depth
\* 0, whatever the file before left behind; so a file that holds the same lines
\* as the one before it yields the same elements (up to the file name), and a
\* file starting "@available(iOS 17.0, *)" / "public func bar()" yields bar
\* with no parent and that one availability line, after any other file or none
C13_NoStateAcrossFiles ==
    [][/\ (pc = "batch" /\ pc' = "scan") =>
             /\ doc_lines' = <<>>
             /\ avail_lines' = <<>>
             /\ type_stack' = <<>>
             /\ brace_depth' = 0
             /\ file_elements' = <<>>
       /\ \A i, j \in 1..Len(disk') :
             disk'[i].lines = disk'[j].lines =>
                 disk'[j].elements =
                     [k \in 1..Len(disk'[i].elements) |->
                         FromFile(disk'[i].elements[k], disk'[j].file)]
       /\ (pc' = "scan" /\ lines' = <<FuncBar>>) => file_elements' = <<>>
       /\ (pc' = "scan" /\ lines' = <<Avail17, FuncBar>>) =>
             file_elements' =
                 <<ApiElement("bar", "func",
                              "@available(iOS 17.0, *)\npublic func bar()", "",
                              <<17, 0>>, FALSE, FALSE, swift_file', None)>>
      ]_vars

\* A.swift ended inside the unclosed Foo with an availability line pending;
\* B.swift then gave bar from its own two lines
C13_Witness ==
    /\ Len(disk) = 1
    /\ disk[1].file = "A.swift"
    /\ disk[1].lines = <<Avail17, StructFoo, Avail17>>
    /\ swift_file = Some("B.swift")
    /\ lines = <<Avail17, FuncBar>>
    /\ Len(file_elements) = 1
    /\ file_elements[1].parent_type = None

\* the availability lines of the catalogue that name an iOS version
NamesIosVersion == {Avail17, Avail16, AvailDeprecated}

\* C14: a matched declaration whose pending availability buffer holds no line
\* naming an iOS version (the buffer is empty, or holds only lines such as
\* `@available(iOS, unavailable)` and `@available(macOS, deprecated: 12.0)`)
\* emits nothing; in particular a member that follows the line of an emitted
\* type with no availability line of its own is not emitted, although the
\* type is on the nesting stack.
C14_NoVersionNoElement ==
    [][/\ (/\ ScanStep
           /\ branch' = "decl"
           /\ \A k \in 1..Len(avail_lines) : avail_lines[k] \notin NamesIosVersion)
          => file_elements' = file_elements
       /\ (/\ ScanStep
           /\ lines = <<Avail17, StructFoo>>
           /\ lines'[Len(lines')] \in {FuncBar, PropBaz})
          => /\ type_stack # <<>>
             /\ file_elements[Len(file_elements)].name = "Foo"
             /\ file_elements' = file_elements
      ]_vars

\* Foo was emitted and is open; its member bar had no availability line
C14_Witness ==
    /\ lines = <<Avail17, StructFoo, FuncBar>>
    /\ branch = "decl"
    /\ type_stack = <<<<"Foo", 1>>>>
    /\ Len(file_elements) = 1
    /\ file_elements[1].name = "Foo"

\* C15: the signature of an emitted element is the pending availability
\* lines, trimmed and in order, those of other platforms included, followed by
\* the trimmed declaration line as written (attributes and modifiers kept),
\* joined by newlines; no doc-comment line is part of it.
C15_SignatureText ==
    /\ \A k \in 1..Len(emitted) :
          file_elements[k].signature =
              Join([i \in 1..Len(emitted[k].avail_at) |->
                       Strip(lines[emitted[k].avail_at[i]])]
                   \o <<Strip(lines[emitted[k].line])>>, "\n")
    /\ lines = <<AvailMacDeprecated, Avail17, InlinableFunc>> =>
          /\ Len(file_elements) = 1
          /\ file_elements[1].signature =
                "@available(macOS, deprecated: 12.0)\n@available(iOS 17.0, *)\n@inlinable nonisolated public func g()"
    /\ lines = <<Doc1, Avail17, InlinableFunc>> =>
          /\ Len(file_elements) = 1
          /\ file_elements[1].signature =
                "@available(iOS 17.0, *)\n@inlinable nonisolated public func g()"

\* a macOS line and an iOS line pending, then a declaration that
\* normalize_line shortens
C15_Witness ==
    /\ lines = <<AvailMacDeprecated, Avail17, InlinableFunc>>
    /\ Len(file_elements) = 1
    /\ file_elements[1].name = "g"
    /\ emitted[1].avail_at = <<1, 2>>

\* the sum of a sequence of numbers
RECURSIVE Sum(_)
Sum(ns) == IF ns = <<>> THEN 0 ELSE Head(ns) + Sum(Tail(ns))

\* C16: build_instruction_examples gives every element between 1 and 4
\* records, all with input "" and with one and the same output text; two
\* elements that agree on kind, full_name and availability string get the
\* same prompts even when their output texts differ; the dataset main() builds
\* holds the records of the elements one after the other, so its length is the
\* sum of the per-element counts.  For the top-level `public struct Foo {`
\* under the one line `@available(iOS 17.0, *)` the records are the two
\* written out below.
C16_PresentationRecords ==
    pc = "built" =>
        LET per == [k \in 1..Len(elements) |->
                       build_instruction_examples(elements[k])]
        IN  /\ \A k \in 1..Len(per) :
                  /\ Len(per[k]) \in 1..4
                  /\ \A r \in 1..Len(per[k]) :
                        /\ per[k][r].input = ""
                        /\ per[k][r].output = per[k][1].output
            /\ \A j, k \in 1..Len(per) :
                  (/\ elements[j].kind = elements[k].kind
                   /\ full_name(elements[j]) = full_name(elements[k])
                   /\ elements[j].ios_introduced = elements[k].ios_introduced)
                  => [r \in 1..Len(per[j]) |-> per[j][r].instruction]
                         = [r \in 1..Len(per[k]) |-> per[k][r].instruction]
            /\ dataset = Flatten(per)
            /\ Len(dataset) = Sum([k \in 1..Len(per) |-> Len(per[k])])
            /\ (/\ Len(elements) > 0
                /\ elements[1].name = "Foo"
                /\ elements[1].signature
                       = "@available(iOS 17.0, *)\npublic struct Foo {"
                /\ elements[1].parent_type = None) =>
                  /\ dataset[1] =
                        [instruction |-> "Explain the struct Foo for iOS 17.0+.",
                         input |-> "",
                         output |->
                            "Declaration:\n" \o Fence
                            \o "swift\n@available(iOS 17.0, *)\npublic struct Foo {\n"
                            \o Fence \o "\n\nAvailability: iOS 17.0+\nSource: "
                            \o elements[1].source_file[1]]
                  /\ dataset[2] =
                        [dataset[1] EXCEPT !.instruction =
                            "Show the Swift declaration and summary for Foo on iOS 17.0+."]

\* a struct from A.swift and a property from B.swift, two records each
C16_Witness ==
    /\ run = 1
    /\ pc = "built"
    /\ Len(elements) = 2
    /\ elements[1].name = "Foo"
    /\ elements[1].source_file = Some("A.swift")
    /\ elements[2].kind = "property"
    /\ Len(dataset) = 4

\* C17: attributes and the modifiers of the closed set (visibility among
\* them) are stripped from the front of a line in whatever order they stand, so
\* `public mutating func f()` is matched as the function f, `public
\* convenience init(x: Int)` as the function init, `public nonisolated var x:
\* Int` as the property x and `@inlinable nonisolated public func g()` as the
\* function g.
C17_ModifiersStripped ==
    (pc = "scan" /\ Len(lines) > 0) =>
        LET line == lines[Len(lines)]
        IN  /\ line = MutatingFunc =>
                  element_kind = Some("func") /\ element_name = Some("f")
            /\ line = ConvenienceInit =>
                  element_kind = Some("func") /\ element_name = Some("init")
            /\ line = NonisolatedVar =>
                  element_kind = Some("property") /\ element_name = Some("x")
            /\ line = InlinableFunc =>
                  element_kind = Some("func") /\ element_name = Some("g")

\* C18: `public static func make()` and `public class func build() {` are
\* matched as the functions make and build: kind "func", no type-kind element,
\* nothing pushed on the nesting stack; `class var shared: Foo` and `static
\* let shared = Foo()` are matched as the property shared.
C18_StaticAndClassMembers ==
    [][ScanStep =>
        LET line == lines'[Len(lines')]
            FunctionOf == StaticFunc :> "make" @@ ClassFunc :> "build"
        IN  /\ line \in {StaticFunc, ClassFunc} =>
                  /\ element_kind' = Some("func")
                  /\ element_name' = Some(FunctionOf[line])
                  /\ Len(type_stack') <= Len(type_stack)
                  /\ \A k \in (Len(file_elements) + 1)..Len(file_elements') :
                        file_elements'[k].kind = "func"
            /\ line \in {ClassVar, StaticLet} =>
                  /\ element_kind' = Some("property")
                  /\ element_name' = Some("shared")
       ]_vars

\* the trimmed text of the line a scan step reads
StrippedRead == Patterns[lines'[Len(lines')]].stripped

\* the line a scan step reads matches none of the four patterns
NoPatternRead == ~Matched(Patterns[lines'[Len(lines')]].declaration)

\* C19: a line that is no doc-comment and no availability line, matches no
\* pattern, is not empty and starts neither with `//` nor with `@` (here
\* `import UIKit` and `}`) empties the doc buffer and the availability buffer;
\* so a doc-comment and an eligible availability line, then `import UIKit`,
\* then a declaration emit nothing.
C19_NoiseClears ==
    [][ScanStep =>
        /\ (/\ ~StartsWith(StrippedRead, "///")
            /\ ~StartsWith(StrippedRead, "@available")
            /\ NoPatternRead
            /\ StrippedRead # ""
            /\ ~StartsWith(StrippedRead, "//")
            /\ ~StartsWith(StrippedRead, "@"))
           => doc_lines' = <<>> /\ avail_lines' = <<>>
        /\ lines'[Len(lines')] \in {Noise, CloseBrace} =>
              doc_lines' = <<>> /\ avail_lines' = <<>>
        /\ lines' = <<Doc1, Avail17, Noise, FuncBar>> => file_elements' = <<>>
       ]_vars

\* both buffers were filled, `import UIKit` emptied them, bar found nothing
C19_Witness ==
    /\ lines = <<Doc1, Avail17, Noise, FuncBar>>
    /\ branch = "decl"
    /\ file_elements = <<>>

\* C20: a line that starts with `@`, is no `@available` line and matches no
\* pattern (here `@MainActor`) leaves the doc buffer and the availability
\* buffer as they were; so a doc-comment, an eligible availability line,
\* `@MainActor` and a declaration emit the declaration with that doc text and
\* that availability.
C20_AttributeKeeps ==
    [][ScanStep =>
        /\ (/\ StartsWith(StrippedRead, "@")
            /\ ~StartsWith(StrippedRead, "@available")
            /\ NoPatternRead)
           => doc_lines' = doc_lines /\ avail_lines' = avail_lines
        /\ lines'[Len(lines')] = MainActor =>
              doc_lines' = doc_lines /\ avail_lines' = avail_lines
        /\ lines' = <<Doc1, Avail17, MainActor, FuncBar>> =>
              file_elements' =
                  <<ApiElement("bar", "func",
                               "@available(iOS 17.0, *)\npublic func bar()",
                               "Does X.", <<17, 0>>, FALSE, FALSE, swift_file,
                               None)>>
       ]_vars

\* the doc-comment and the availability line of bar stand before `@MainActor`
C20_Witness ==
    /\ lines = <<Doc1, Avail17, MainActor, FuncBar>>
    /\ branch = "decl"
    /\ Len(file_elements) = 1
    /\ emitted[1].doc_at = <<1>>
    /\ emitted[1].avail_at = <<2>>

\* the availability lines that name no iOS
OtherPlatform == {AvailMacDeprecated, AvailMacUnavailable, AvailStarDeprecated}

\* C21: the verdict of parse_ios_availability on a buffer equals its verdict on
\* the buffer with the lines that do not mention iOS removed; the buffers
\* `@available(iOS 17.0, *)` with `@available(macOS, unavailable)` and
\* `@available(iOS 17.0, *)` with `@available(*, deprecated)`, in either
\* order, give (17,0), not deprecated, not unavailable, which is eligible.
C21_OtherPlatformsIgnored ==
    (call.fn = "parse_ios_availability" /\ call.result # None) =>
        LET buf == call.avail_lines
            ios_only == SelectSeq(buf, LAMBDA l : l \notin OtherPlatform)
        IN  /\ call.result[1] = parse_ios_availability(ios_only)
            /\ (\E o \in {AvailMacUnavailable, AvailStarDeprecated} :
                    buf \in {<<Avail17, o>>, <<o, Avail17>>})
               => /\ call.result[1] = <<<<17, 0>>, FALSE, FALSE>>
                  /\ Eligible(call.result[1])

\* the macOS-unavailable line stood after the iOS 17.0 line
C21_Witness ==
    /\ call.fn = "parse_ios_availability"
    /\ call.avail_lines = <<Avail17, AvailMacUnavailable>>
    /\ call.result = Some(<<<<17, 0>>, FALSE, FALSE>>)

\* what each iOS line of AvailabilityLines says, read off the line by hand:
\* its version (None when it names none) and its flags
VersionNamed ==
    Avail17 :> <<17, 0>> @@ Avail16 :> <<16, 0>> @@ Avail18_2 :> <<18, 2>>
        @@ AvailDeprecated :> <<18, 0>> @@ AvailBoth :> <<18, 0>>
        @@ AvailUnavailable :> None

MarkedDeprecated == {AvailDeprecated}

MarkedUnavailable == {AvailUnavailable}

\* C22: introduced is the version of the last line of the buffer, among the
\* iOS lines that name a version, however many such lines stand before or
\* after it (None when there is none); on a line with both `iOS 18.0` and
\* `introduced: 16.0` the direct 18.0 is taken, on a line with only
\* `introduced: 18.0` that one; deprecated (unavailable) is true exactly when
\* some iOS line of the buffer is marked so, wherever it stands.
C22_LastVersionWins ==
    (call.fn = "parse_ios_availability" /\ call.result # None) =>
        LET buf == call.avail_lines
            versioned == {k \in 1..Len(buf) :
                             /\ buf[k] \notin OtherPlatform
                             /\ VersionNamed[buf[k]] # None}
            last == CHOOSE k \in versioned : \A j \in versioned : j <= k
        IN  /\ call.result[1][1] =
                  IF versioned = {} THEN None ELSE VersionNamed[buf[last]]
            /\ call.result[1][2] =
                  (\E k \in 1..Len(buf) : buf[k] \in MarkedDeprecated)
            /\ call.result[1][3] =
                  (\E k \in 1..Len(buf) : buf[k] \in MarkedUnavailable)

\* two versioned iOS lines and a flag before them: the later version, the flag
\* kept
C22_Witness ==
    /\ call.fn = "parse_ios_availability"
    /\ call.avail_lines = <<AvailUnavailable, AvailBoth, Avail17>>
    /\ call.result = Some(<<<<17, 0>>, FALSE, TRUE>>)

\* the lines of BraceLines read by hand: opening minus closing braces, and the
\* type a line declares with an opening brace on the line itself
BraceDelta ==
    Avail17 :> 0 @@ StructFoo :> 1 @@ StructBaz :> 0 @@ StructEmpty :> 0
        @@ StructThenClose :> -1 @@ OpenBrace :> 1 @@ CloseBrace :> -1
        @@ FuncBar :> 0

TypeWithBrace ==
    StructFoo :> "Foo" @@ StructEmpty :> "Empty" @@ StructThenClose :> "Late"

\* C23: a line pushes on the nesting stack exactly when it declares a type and
\* holds an opening brace itself, and the entry is (name, brace depth after
\* the line); `public struct Baz` with `{` on the next line pushes nothing,
\* the lone `{` pushes nothing either, so no element ever has parent_type Baz
\* and a member of Baz's body has the parent it would have had before Baz.
C23_PushNeedsBrace ==
    [][ScanStep =>
        LET line == lines'[Len(lines')]
        IN  /\ (line \in DOMAIN TypeWithBrace) =>
                  /\ brace_depth' = brace_depth + BraceDelta[line]
                  /\ Len(type_stack') > 0
                  /\ type_stack'[Len(type_stack')]
                         = <<TypeWithBrace[line], brace_depth'>>
            /\ (line \notin DOMAIN TypeWithBrace) =>
                  /\ Len(type_stack') <= Len(type_stack)
                  /\ type_stack' = SubSeq(type_stack, 1, Len(type_stack'))
            /\ \A k \in 1..Len(file_elements') :
                  file_elements'[k].parent_type # Some("Baz")
            /\ lines' = <<StructBaz, OpenBrace, Avail17, FuncBar>> =>
                  /\ Len(file_elements') = 1
                  /\ file_elements'[1].parent_type = None
            /\ lines' = <<StructFoo, StructBaz, OpenBrace, Avail17, FuncBar>> =>
                  /\ Len(file_elements') = 1
                  /\ file_elements'[1].parent_type = Some("Foo")
       ]_vars

\* bar stands in the body of Baz, whose brace came on the line after it
C23_Witness ==
    /\ lines = <<StructBaz, OpenBrace, Avail17, FuncBar>>
    /\ brace_depth = 1
    /\ type_stack = <<>>
    /\ Len(file_elements) = 1
    /\ file_elements[1].name = "bar"

\* C24: a line that starts with `///` or with `@available`, braces in it or
\* not (`/// Opens { a scope`, `@available(iOS 17.0, *) public func a() {`),
\* appends its trimmed text to its own buffer and does nothing else: the other
\* buffer, the elements, the brace depth and the nesting stack stay as they
\* were.
C24_ContextLinesOnlyAppend ==
    [][ScanStep =>
        LET line == lines'[Len(lines')]
        IN  /\ line \in {Doc1, DocBraces} =>
                  /\ doc_lines' = Append(doc_lines, line)
                  /\ avail_lines' = avail_lines
                  /\ file_elements' = file_elements
                  /\ brace_depth' = brace_depth
                  /\ type_stack' = type_stack
            /\ line \in {Avail17, AvailFuncA} =>
                  /\ avail_lines' = Append(avail_lines, line)
                  /\ doc_lines' = doc_lines
                  /\ file_elements' = file_elements
                  /\ brace_depth' = brace_depth
                  /\ type_stack' = type_stack
       ]_vars

\* inside Foo, a doc-comment with `{` and an availability line with `{`
C24_Witness ==
    /\ lines = <<StructFoo, DocBraces, AvailFuncA>>
    /\ doc_lines = <<DocBraces>>
    /\ avail_lines = <<AvailFuncA>>
    /\ brace_depth = 1
    /\ type_stack = <<<<"Foo", 1>>>>

\* C25: the availability text of `@available(iOS 17.0, *) public func a() {`,
\* a line that carries its own declaration, is never among the availability
\* lines an element of a later line was judged by and never part of such an
\* element's signature; so `public func b()` right after that line, with no
\* availability line of its own, is not emitted.
C25_AvailabilityStaysWithItsLine ==
    /\ \A k \in 1..Len(emitted) :
          /\ \A i \in 1..Len(emitted[k].avail_at) :
                lines[emitted[k].avail_at[i]] # AvailFuncA
          /\ ~Contains(file_elements[k].signature, "func a()")
    /\ (pc = "scan" /\ lines = <<AvailFuncA, FuncB>>) => file_elements = <<>>

\* C26: a type whose braces open and close on its own line (`struct Empty {}`)
\* is not on the nesting stack after that line, and no element of a later
\* line has parent_type Empty.
C26_BalancedTypeLeaves ==
    /\ \A k \in 1..Len(type_stack) : type_stack[k][1] # "Empty"
    /\ \A k \in 1..Len(file_elements) :
          file_elements[k].parent_type # Some("Empty")

\* C27: after every line the depths recorded on the nesting stack do not
\* decrease from bottom to top, and none of them exceeds the brace depth.
C27_StackDepthsOrdered ==
    /\ \A i, j \in 1..Len(type_stack) :
          i < j => type_stack[i][2] <= type_stack[j][2]
    /\ \A k \in 1..Len(type_stack) : type_stack[k][2] <= brace_depth

\* C28: a whitespace-only line and a plain comment (`// }`) leave the doc
\* buffer and the availability buffer as they were, so a doc-comment, an
\* availability line, such a line and a declaration emit the declaration with
\* that doc text and that availability; the brace in `// }` still lowers the
\* brace depth by one and pops the types whose recorded depth is above it.
C28_BlankAndCommentKeep ==
    [][ScanStep =>
        LET line == lines'[Len(lines')]
        IN  /\ line \in {BlankSpaces, CommentBrace} =>
                  /\ doc_lines' = doc_lines
                  /\ avail_lines' = avail_lines
                  /\ file_elements' = file_elements
            /\ line = BlankSpaces =>
                  brace_depth' = brace_depth /\ type_stack' = type_stack
            /\ line = CommentBrace =>
                  /\ brace_depth' = brace_depth - 1
                  /\ type_stack' =
                        SelectSeq(type_stack, LAMBDA t : t[2] <= brace_depth - 1)
            /\ (\E between \in {BlankSpaces, CommentBrace} :
                    lines' = <<Doc1, Avail17, between, FuncB>>)
               => /\ Len(file_elements') = 1
                  /\ file_elements'[1].name = "b"
                  /\ file_elements'[1].doc = "Does X."
                  /\ file_elements'[1].ios_introduced = <<17, 0>>
                  /\ file_elements'[1].signature
                         = "@available(iOS 17.0, *)\npublic func b()"
       ]_vars

\* the comment stood between the pending lines and b, and its brace counted
C28_Witness ==
    /\ lines = <<Doc1, Avail17, CommentBrace, FuncB>>
    /\ brace_depth = -1
    /\ Len(file_elements) = 1
    /\ emitted[1].doc_at = <<1>>
    /\ emitted[1].avail_at = <<2>>

\* the buffers under which a declaration is matched and not emitted
Refused == {<<>>, <<Avail16>>, <<AvailUnavailable>>, <<AvailDeprecated>>}

\* C29: `public struct Foo {` puts (Foo, depth after the line) on the nesting
\* stack whether an element is emitted for it or not; so when Foo has no
\* availability line, or one below 17.0, an unavailable or a deprecated one,
\* Foo is not in the output and the eligible member bar that follows is, with
\* parent_type Foo.
C29_PushWithoutEmission ==
    [][ScanStep =>
        /\ lines'[Len(lines')] = StructFoo =>
              type_stack' = Append(type_stack, <<"Foo", brace_depth + 1>>)
        /\ (\E refused \in Refused :
                lines' = refused \o <<StructFoo, Avail17, FuncBar>>)
           => /\ Len(file_elements') = 1
              /\ file_elements'[1].name = "bar"
              /\ file_elements'[1].parent_type = Some("Foo")
       ]_vars

\* the deprecated Foo was dropped; bar names it as its parent
C29_Witness ==
    /\ lines = <<AvailDeprecated, StructFoo, Avail17, FuncBar>>
    /\ Len(file_elements) = 1
    /\ file_elements[1].name = "bar"
    /\ file_elements[1].parent_type = Some("Foo")
    /\ emitted[1].line = 4

\* C30: every example split_long_sequence returns has an estimated token
\* count of at most max_tokens, for every user part and assistant part.
C30_ChunksFitLimit ==
    (call.fn = "split_long_sequence" /\ call.result # None) =>
        \A k \in 1..Len(call.result[1]) :
            estimate_tokens(call.result[1][k].text) <= call.max_tokens

=============================================================================
